---- MODULE Spec2Model ----
(***************************************************************************)
(* BlackboxImageGenerator (src/blackbox_image_generator.py).               *)
(*                                                                         *)
(* generate_image posts a prompt, slices the image URL out of the decoded  *)
(* response body, downloads the image and writes it to output_image_path.  *)
(* Every call of generate_image is a thread of control `c` with its own    *)
(* locals (call[c]); the file system (files), the console (stdout) and the *)
(* client instance (self) are shared.  The remote service and the file     *)
(* system are the environment: each answer they can give is a choice.      *)
(*                                                                         *)
(* Text is a sequence of code points, bytes a sequence of 0..255.          *)
(***************************************************************************)
EXTENDS Integers, Sequences, FiniteSets, TLC

VARIABLES self, call, files, files0, stdout

vars == <<self, call, files, files0, stdout>>

\* ------------------------------------------------------------------ bounds

\* longest image body the GET answers with
MaxImageLen == 2
\* longest content a file holds before the calls start
MaxOldLen == 3

\* --------------------------------------------------------------- constants

\* response.status_code == 200
HTTP_OK == 200
\* image_url = ...[4:-1]
SLICE_START == 4
SLICE_STOP == -1

\* 'https://'
HTTPS_PREFIX == <<104, 116, 116, 112, 115, 58, 47, 47>>

\* ImageGenerationStatus.SUCCESS.value
SUCCESS == "Image Generated Successfully"

\* messages of the raised errors
MSG_REQUEST_FAILED == "Request failed: "
MSG_NO_URL == "No Image URL found."
MSG_UNEXPECTED == "An unexpected error occurred: "
MSG_DOWNLOAD_FAILED == "Failed to download the image."
MSG_DOWNLOAD_ERROR == "Error downloading image: "

\* api_url and headers of a client built with the defaults
DefaultClient == [api_url |-> "https://www.blackbox.ai/api/chat", headers |-> "browser"]

\* ------------------------------------------------------- exception classes

\* class -> base class; the custom classes of the module, and the classes of
\* requests and of the builtins the two methods can meet
Base(cls) ==
    CASE cls = "ImageDownloadError" -> "BlackboxAPIError"
      [] cls = "ImageGenerationError" -> "BlackboxAPIError"
      [] cls = "StatusCodeError" -> "BlackboxAPIError"
      [] cls = "BlackboxAPIError" -> "Exception"
      [] cls = "HTTPError" -> "RequestException"
      [] cls = "ConnectionError" -> "RequestException"
      [] cls = "Timeout" -> "RequestException"
      [] cls = "RequestException" -> "OSError"
      [] cls = "PermissionError" -> "OSError"
      [] cls = "OSError" -> "Exception"
      [] cls = "UnicodeDecodeError" -> "ValueError"
      [] cls = "ValueError" -> "Exception"
      [] cls = "Exception" -> "BaseException"
      [] OTHER -> "object"

RECURSIVE IsInstance(_, _)
\* isinstance(e, klass): klass is the class of e or one of its bases
IsInstance(cls, klass) ==
    IF cls = klass THEN TRUE
    ELSE IF cls = "object" THEN FALSE
    ELSE IsInstance(Base(cls), klass)

NoExc == [cls |-> "None", msg |-> <<>>]

\* an exception object: its class and its message, outermost part first
Exc(cls, msg) == [cls |-> cls, msg |-> msg]

\* ------------------------------------------------------------ pure helpers

RECURSIVE DecodeFrom(_, _)
\* bytes.decode('utf-8') from byte i on: one code point per 1-byte or 2-byte
\* sequence, -1 where the bytes are not valid UTF-8
DecodeFrom(b, i) ==
    IF i > Len(b) THEN <<>>
    ELSE IF b[i] < 128 THEN <<b[i]>> \o DecodeFrom(b, i + 1)
    ELSE IF /\ b[i] >= 194 /\ b[i] <= 223
            /\ i + 1 <= Len(b) /\ b[i + 1] >= 128 /\ b[i + 1] <= 191
         THEN <<(b[i] - 192) * 64 + (b[i + 1] - 128)>> \o DecodeFrom(b, i + 2)
    ELSE <<-1>>

\* response.content.decode('utf-8'): the text, or a UnicodeDecodeError
Decode(b) ==
    LET t == DecodeFrom(b, 1)
    IN  IF \E i \in 1..Len(t) : t[i] = -1
        THEN [ok |-> FALSE, text |-> <<>>]
        ELSE [ok |-> TRUE, text |-> t]

\* SliceIndex with a negative index not counted from the end
SliceIndexNoNegative(n, len) ==
    IF n < 0 THEN 0 ELSE IF n > len THEN len ELSE n

\* a slice index of Python: negative counts from the end, then clamped
SliceIndex(n, len) ==
    LET k == IF n < 0 THEN n + len ELSE n
    IN  IF k < 0 THEN 0 ELSE IF k > len THEN len ELSE k

\* s[start:] in the place of s[start:stop]
PySliceNoStop(s, start, stop) ==
    LET lo == SliceIndex(start, Len(s))
    IN  IF Len(s) <= lo THEN <<>> ELSE [i \in 1..(Len(s) - lo) |-> s[lo + i]]

\* s[start:stop] of Python (0-based, stop excluded)
PySlice(s, start, stop) ==
    LET lo == SliceIndex(start, Len(s))
        hi == SliceIndex(stop, Len(s))
    IN  IF hi <= lo THEN <<>> ELSE [i \in 1..(hi - lo) |-> s[lo + i]]

\* s.startswith(p)
StartsWith(s, p) ==
    /\ Len(s) >= Len(p)
    /\ \A i \in 1..Len(p) : s[i] = p[i]

\* the test without its startswith part
IsImageUrlNonEmpty(image_url) == image_url # <<>>

\* if image_url and image_url.startswith('https://')
IsImageUrl(image_url) == image_url # <<>> /\ StartsWith(image_url, HTTPS_PREFIX)

\* response.raise_for_status(): raises HTTPError for 4xx and 5xx
RaisesForStatus(status) == status >= 400 /\ status < 600

\* any status below 400 taken for a success
StatusOkBelow400(status) == status < 400

\* response.status_code == 200
StatusOk(status) == status = HTTP_OK

\* a mode that opens without truncating ("r+b")
TruncateKeeps(old) == old

\* open(path, "wb"): the file exists and is empty
Truncate(old) == <<>>

\* file.write(data) through a handle at offset 0: data replaces the first
\* Len(data) bytes of what the file holds
WriteAt0(old, data) ==
    IF Len(old) <= Len(data) THEN data
    ELSE data \o SubSeq(old, Len(data) + 1, Len(old))

\* ------------------------------------------------------------------ inputs

\* the threads of control that call generate_image on the one client
Calls == {1, 2}

\* output_image_path arguments
Paths == {"a.jpg", "b.jpg"}

RECURSIVE SeqsUpTo(_, _)
\* the sequences over S of length 0..n
SeqsUpTo(S, n) ==
    IF n = 0 THEN {<<>>}
    ELSE LET shorter == SeqsUpTo(S, n - 1)
         IN  shorter \cup {Append(s, x) : s \in {t \in shorter : Len(t) = n - 1}, x \in S}

\* what a path holds: no file, or a file with its bytes
NoFile == [exists |-> FALSE, data |-> <<>>]
File(data) == [exists |-> TRUE, data |-> data]

\* a path before the calls: absent, or a file of 0..MaxOldLen zero bytes
OldFiles == {NoFile} \cup {File(d) : d \in SeqsUpTo({0}, MaxOldLen)}

\* bodies of the image GET: JPEG-like bytes, 0..MaxImageLen of them
ImageBodies == SeqsUpTo({255, 216}, MaxImageLen)

\* bodies of the POST response, as bytes: framing, candidate, framing
BodyPrefixes == {<<>>, <<33, 91, 93, 40>>, <<96, 96, 96>>}
BodyMiddles ==
    { <<>>,
      HTTPS_PREFIX \o <<97>>,
      HTTPS_PREFIX \o <<98>>,
      <<104, 116, 116, 112, 58, 47, 47, 97>>,
      <<104, 116, 116, 112, 115, 58, 47>> }
BodySuffixes == {<<>>, <<41>>, <<96, 96, 96>>, <<195>>, <<195, 169>>}
PostBodies == {p \o m \o s : p \in BodyPrefixes, m \in BodyMiddles, s \in BodySuffixes}

\* the bodies two concurrent calls are answered with
ConcurrentBodies ==
    { <<33, 91, 93, 40>> \o HTTPS_PREFIX \o <<97, 41>>,
      <<33, 91, 93, 40>> \o HTTPS_PREFIX \o <<98, 41>>,
      <<96, 96, 96>> \o HTTPS_PREFIX \o <<97, 96, 96, 96>> }

\* the answers of the environment to one synchronous call: what requests.post
\* and requests.get raise when the transport fails, the statuses and bodies of
\* the POST, the statuses and bodies of the GET
Answers ==
    [ errors |-> {"ConnectionError", "Timeout"},
      post_statuses |-> {200, 302, 404, 500},
      post_bodies |-> PostBodies,
      get_statuses |-> {200, 204, 404},
      get_bodies |-> ImageBodies ]

\* the answers to two concurrent calls: fewer of each kind
ConcurrentAnswers ==
    [ errors |-> {"ConnectionError"},
      post_statuses |-> {200, 500},
      post_bodies |-> ConcurrentBodies,
      get_statuses |-> {200, 404},
      get_bodies |-> {b \in ImageBodies : b # <<>> /\ \A i \in 1..Len(b) : b[i] = 255} ]

\* ------------------------------------------------------------------- state

NoResponse == [exc |-> "None", status |-> 0, content |-> <<>>]
NoIO == [open |-> "none", write |-> "none", written |-> 0]

\* the locals of a call that has not started
IdleCall ==
    [ pc |-> "idle", output_image_path |-> "", prints |-> FALSE,
      post |-> NoResponse, image_url |-> <<>>, get_url |-> <<>>, get |-> NoResponse,
      io |-> NoIO, exc |-> NoExc, raised |-> NoExc, result |-> "", log |-> <<>> ]

Init ==
    /\ self = DefaultClient
    /\ call = [c \in Calls |-> IdleCall]
    /\ files0 \in [Paths -> OldFiles]
    /\ files = files0
    /\ stdout = <<>>

\* ----------------------------------------------------------- generate_image

\* generate_image(prompt, output_image_path, prints) is entered
Invoke(c) ==
    /\ call[c].pc = "idle"
    /\ \E path \in Paths, prints \in BOOLEAN :
           call' = [call EXCEPT ![c].pc = "post",
                                ![c].output_image_path = path,
                                ![c].prints = prints]
    /\ UNCHANGED <<self, files, files0, stdout>>

\* requests.post(self.api_url, ...) raises: the transport failed
PostRaises(c, errors) ==
    /\ call[c].pc = "post"
    /\ \E e \in errors :
           call' = [call EXCEPT ![c].pc = "generate_except",
                                ![c].post = [NoResponse EXCEPT !.exc = e],
                                ![c].exc = Exc(e, <<e>>),
                                ![c].log = Append(@, "POST")]
    /\ UNCHANGED <<self, files, files0, stdout>>

\* requests.post(self.api_url, ...) returns a response
PostResponds(c, statuses, bodies) ==
    /\ call[c].pc = "post"
    /\ \E st \in statuses, body \in bodies :
           call' = [call EXCEPT ![c].pc = "raise_for_status",
                                ![c].post = [exc |-> "None", status |-> st, content |-> body],
                                ![c].log = Append(@, "POST")]
    /\ UNCHANGED <<self, files, files0, stdout>>

\* response.raise_for_status()
RaiseForStatus(c) ==
    /\ call[c].pc = "raise_for_status"
    /\ IF RaisesForStatus(call[c].post.status)
       THEN call' = [call EXCEPT ![c].pc = "generate_except",
                                 ![c].exc = Exc("HTTPError", <<"HTTPError">>)]
       ELSE call' = [call EXCEPT ![c].pc = "slice"]
    /\ UNCHANGED <<self, files, files0, stdout>>

\* image_url = response.content.decode('utf-8')[4:-1], and the test of it
ExtractUrl(c) ==
    /\ call[c].pc = "slice"
    /\ LET d == Decode(call[c].post.content)
           url == PySlice(d.text, SLICE_START, SLICE_STOP)
       IN  IF ~d.ok
           THEN call' = [call EXCEPT ![c].pc = "generate_except",
                                     ![c].exc = Exc("UnicodeDecodeError", <<"UnicodeDecodeError">>)]
           ELSE IF IsImageUrl(url)
           THEN call' = [call EXCEPT ![c].pc = "print", ![c].image_url = url]
           ELSE call' = [call EXCEPT ![c].pc = "generate_except",
                                     ![c].image_url = url,
                                     ![c].exc = Exc("ImageGenerationError", <<MSG_NO_URL>>)]
    /\ UNCHANGED <<self, files, files0, stdout>>

\* if prints: print(f"Image URL: {image_url}"), then _download_image is entered
PrintUrl(c) ==
    /\ call[c].pc = "print"
    /\ IF call[c].prints
       THEN /\ stdout' = Append(stdout, call[c].image_url)
            /\ call' = [call EXCEPT ![c].pc = "get", ![c].log = Append(@, "PRINT")]
       ELSE /\ stdout' = stdout
            /\ call' = [call EXCEPT ![c].pc = "get"]
    /\ UNCHANGED <<self, files, files0>>

\* ---------------------------------------------------------- _download_image

\* requests.get(image_url) raises: the transport failed
GetRaises(c, errors) ==
    /\ call[c].pc = "get"
    /\ \E e \in errors :
           call' = [call EXCEPT ![c].pc = "download_except",
                                ![c].get_url = call[c].image_url,
                                ![c].get = [NoResponse EXCEPT !.exc = e],
                                ![c].exc = Exc(e, <<e>>),
                                ![c].log = Append(@, "GET")]
    /\ UNCHANGED <<self, files, files0, stdout>>

\* requests.get(image_url) returns a response
GetResponds(c, statuses, bodies) ==
    /\ call[c].pc = "get"
    /\ \E st \in statuses, body \in bodies :
           call' = [call EXCEPT ![c].pc = "status_code",
                                ![c].get_url = call[c].image_url,
                                ![c].get = [exc |-> "None", status |-> st, content |-> body],
                                ![c].log = Append(@, "GET")]
    /\ UNCHANGED <<self, files, files0, stdout>>

\* if response.status_code == 200: ... else: raise ImageDownloadError(...)
CheckStatus(c) ==
    /\ call[c].pc = "status_code"
    /\ IF StatusOk(call[c].get.status)
       THEN call' = [call EXCEPT ![c].pc = "open"]
       ELSE call' = [call EXCEPT ![c].pc = "download_except",
                                 ![c].exc = Exc("ImageDownloadError", <<MSG_DOWNLOAD_FAILED>>)]
    /\ UNCHANGED <<self, files, files0, stdout>>

\* the default path opened whatever the argument
TargetPathDefault(c) == "a.jpg"

\* the path _download_image opens: its output_image_path argument
TargetPath(c) == call[c].output_image_path

\* open(output_image_path, "wb") succeeds: the file is created or truncated
OpenFile(c) ==
    /\ call[c].pc = "open"
    /\ files' = [files EXCEPT ![TargetPath(c)] = File(Truncate(@.data))]
    /\ call' = [call EXCEPT ![c].pc = "write",
                            ![c].io.open = "ok",
                            ![c].log = Append(@, "OPEN")]
    /\ UNCHANGED <<self, files0, stdout>>

\* open(output_image_path, "wb") raises OSError: nothing is created or truncated
OpenFails(c) ==
    /\ call[c].pc = "open"
    /\ call' = [call EXCEPT ![c].pc = "download_except",
                            ![c].io.open = "error",
                            ![c].exc = Exc("PermissionError", <<"PermissionError">>)]
    /\ UNCHANGED <<self, files, files0, stdout>>

\* file.write(response.content) and the close of the with block
WriteFile(c) ==
    /\ call[c].pc = "write"
    /\ files' = [files EXCEPT ![TargetPath(c)] =
                     File(WriteAt0(@.data, call[c].get.content))]
    /\ call' = [call EXCEPT ![c].pc = "return",
                            ![c].io.write = "ok",
                            ![c].io.written = Len(call[c].get.content),
                            ![c].log = Append(@, "WRITE")]
    /\ UNCHANGED <<self, files0, stdout>>

\* file.write(response.content) raises OSError after k bytes; the with block
\* closes the file
WriteFails(c) ==
    /\ call[c].pc = "write"
    /\ \E k \in 0..(Len(call[c].get.content) - 1) :
           /\ files' = [files EXCEPT ![TargetPath(c)] =
                            File(WriteAt0(@.data, SubSeq(call[c].get.content, 1, k)))]
           /\ call' = [call EXCEPT ![c].pc = "download_except",
                                   ![c].io.write = "error",
                                   ![c].io.written = k,
                                   ![c].exc = Exc("OSError", <<"OSError">>),
                                   ![c].log = Append(@, "WRITE")]
    /\ UNCHANGED <<self, files0, stdout>>

\* what leaves _download_image when e is raised inside its try block
DownloadHandler(e) ==
    IF IsInstance(e.cls, "RequestException")
    THEN Exc("ImageDownloadError", <<MSG_DOWNLOAD_ERROR>> \o e.msg)
    ELSE e

\* except requests.exceptions.RequestException as e: raise ImageDownloadError
DownloadExcept(c) ==
    /\ call[c].pc = "download_except"
    /\ call' = [call EXCEPT ![c].pc = "generate_except",
                            ![c].exc = DownloadHandler(call[c].exc)]
    /\ UNCHANGED <<self, files, files0, stdout>>

\* ------------------------------------------- the end of generate_image

\* the handler without its RequestException clause
GenerateHandlerNoRequestClause(e) ==
    IF IsInstance(e.cls, "ImageGenerationError")
    THEN e
    ELSE IF IsInstance(e.cls, "Exception")
    THEN Exc("ImageGenerationError", <<MSG_UNEXPECTED>> \o e.msg)
    ELSE e

\* the handler without its catch-all clause
GenerateHandlerNoCatchAll(e) ==
    IF IsInstance(e.cls, "RequestException")
    THEN Exc("StatusCodeError", <<MSG_REQUEST_FAILED>> \o e.msg)
    ELSE e

\* what leaves generate_image when e is raised inside its try block
GenerateHandler(e) ==
    IF IsInstance(e.cls, "RequestException")
    THEN Exc("StatusCodeError", <<MSG_REQUEST_FAILED>> \o e.msg)
    ELSE IF IsInstance(e.cls, "ImageGenerationError")
    THEN e
    ELSE IF IsInstance(e.cls, "Exception")
    THEN Exc("ImageGenerationError", <<MSG_UNEXPECTED>> \o e.msg)
    ELSE e

\* the except clauses of generate_image: the caller receives the exception
GenerateExcept(c) ==
    /\ call[c].pc = "generate_except"
    /\ call' = [call EXCEPT ![c].pc = "raised",
                            ![c].exc = NoExc,
                            ![c].raised = GenerateHandler(call[c].exc)]
    /\ UNCHANGED <<self, files, files0, stdout>>

\* return ImageGenerationStatus.SUCCESS.value
ReturnSuccess(c) ==
    /\ call[c].pc = "return"
    /\ call' = [call EXCEPT ![c].pc = "returned", ![c].result = SUCCESS]
    /\ UNCHANGED <<self, files, files0, stdout>>

\* ------------------------------------------------------------ specifications

\* one step of call c, the environment answering from env
Step(c, env) ==
    \/ Invoke(c)
    \/ PostRaises(c, env.errors)
    \/ PostResponds(c, env.post_statuses, env.post_bodies)
    \/ RaiseForStatus(c)
    \/ ExtractUrl(c)
    \/ PrintUrl(c)
    \/ GetRaises(c, env.errors)
    \/ GetResponds(c, env.get_statuses, env.get_bodies)
    \/ CheckStatus(c)
    \/ OpenFile(c)
    \/ OpenFails(c)
    \/ WriteFile(c)
    \/ WriteFails(c)
    \/ DownloadExcept(c)
    \/ GenerateExcept(c)
    \/ ReturnSuccess(c)

\* one call at a time: the synchronous use of the client
Next == Step(1, Answers)

Spec == Init /\ [][Next]_vars

\* two calls on the same client instance, interleaved at every step
NextConcurrent == \E c \in Calls : Step(c, ConcurrentAnswers)

\* before two concurrent calls: each path absent or holding MaxOldLen bytes
InitConcurrent ==
    /\ Init
    /\ \A p \in Paths : files0[p] \in {NoFile, File([i \in 1..MaxOldLen |-> 0])}

SpecConcurrent == InitConcurrent /\ [][NextConcurrent]_vars

\* -------------------------------------------------- vocabulary of the claims

\* the call has ended: it returned, or raised to its caller
Ended(c) == call[c].pc \in {"raised", "returned"}

\* the POST was answered with a response (of any status)
PostAnswered(c) == call[c].post.status # 0

\* the POST failed at the transport layer, or answered a 4xx or 5xx status
PostFailed(c) == call[c].post.exc # "None" \/ call[c].post.status \in 400..599

\* the POST was answered, with no client or server error status
PostSucceeded(c) == PostAnswered(c) /\ call[c].post.status \notin 400..599

\* the GET was answered with a response (of any status)
GetAnswered(c) == call[c].get.status # 0

\* the decoded text of the POST response body
BodyText(c) == Decode(call[c].post.content).text
BodyDecodes(c) == Decode(call[c].post.content).ok

\* the text without its first 4 and its last 1 characters
Candidate(c) == SubSeq(BodyText(c), 5, Len(BodyText(c)) - 1)

\* the text is three backticks, a URL, three backticks; and that URL
BACKTICKS == <<96, 96, 96>>
BacktickFramed(c) ==
    /\ Len(BodyText(c)) >= 6
    /\ SubSeq(BodyText(c), 1, 3) = BACKTICKS
    /\ SubSeq(BodyText(c), Len(BodyText(c)) - 2, Len(BodyText(c))) = BACKTICKS
BacktickUrl(c) == SubSeq(BodyText(c), 4, Len(BodyText(c)) - 3)

\* op is among the side effects the call has had
Did(c, op) == \E i \in 1..Len(call[c].log) : call[c].log[i] = op

\* the outbound requests and file operations of the call, in order
Effects(c) ==
    LET IsEffect(op) == op # "PRINT"
    IN  SelectSeq(call[c].log, IsEffect)

IsPrefix(s, t) == Len(s) <= Len(t) /\ \A i \in 1..Len(s) : s[i] = t[i]

\* the failure class of a call that raised
FailureClass(c) ==
    IF PostFailed(c) THEN "transport"
    ELSE IF BodyDecodes(c) /\ ~StartsWith(Candidate(c), HTTPS_PREFIX) THEN "no_url"
    ELSE IF call[c].get.exc # "None" \/ (GetAnswered(c) /\ call[c].get.status # 200)
    THEN "download"
    ELSE "unexpected"

\* --------------------------------------------------------------- the claims

\* C1: when the image GET answers with a status other than 200, the output
\* file is neither created nor modified and the caller of generate_image
\* receives an ImageDownloadError.
C1_Non200RaisesDownloadError ==
    \A c \in Calls :
        (call[c].pc = "raised" /\ GetAnswered(c) /\ call[c].get.status # 200)
            => /\ files = files0
               /\ call[c].raised.cls = "ImageDownloadError"

\* C2 as stated: for a body of three backticks, a URL U starting with
\* https://, three backticks, the call extracts U, issues the GET to U and,
\* the GET answering 200 with B, leaves B in the file and returns success.
C2_BacktickFramedBody ==
    \A c \in Calls :
        ( /\ Ended(c) /\ PostSucceeded(c) /\ BodyDecodes(c)
          /\ BacktickFramed(c) /\ StartsWith(BacktickUrl(c), HTTPS_PREFIX) )
            => /\ call[c].image_url = BacktickUrl(c)
               /\ Did(c, "GET") /\ call[c].get_url = BacktickUrl(c)
               /\ (call[c].get.status = 200 /\ call[c].io.write = "ok")
                      => /\ files[call[c].output_image_path] = File(call[c].get.content)
                         /\ call[c].result = SUCCESS

\* C2 amended: for a successful POST whose body is 4 framing characters, a URL
\* U starting with https://, 1 framing character, the call issues its GET to
\* exactly U; the GET answering 200 with B and the file being opened and
\* written, the file holds exactly B and the call returns the success value.
C2_EndToEnd ==
    \A c \in Calls :
        ( /\ Ended(c) /\ PostSucceeded(c) /\ BodyDecodes(c)
          /\ Len(BodyText(c)) >= 5 /\ StartsWith(Candidate(c), HTTPS_PREFIX) )
            => /\ Did(c, "GET") /\ call[c].get_url = Candidate(c)
               /\ (call[c].get.status = 200 /\ call[c].io.write = "ok")
                      => /\ files[call[c].output_image_path] = File(call[c].get.content)
                         /\ call[c].pc = "returned"
                         /\ call[c].result = SUCCESS

C2_Witness ==
    \E c \in Calls :
        /\ call[c].pc = "returned" /\ call[c].result = SUCCESS
        /\ call[c].post.content = <<33, 91, 93, 40>> \o HTTPS_PREFIX \o <<97, 41>>
        /\ call[c].get_url = HTTPS_PREFIX \o <<97>>
        /\ call[c].get.content = <<255, 216>>
        /\ files[call[c].output_image_path] = File(<<255, 216>>)

\* C3: the four failure classes (POST transport/HTTP failure, no URL found,
\* download failure, any other failure) are pairwise distinguishable by the
\* kind of the error raised; no failed call returns the success value and
\* none repeats a step.
C3_KindsIdentifyFailures ==
    /\ \A c, d \in Calls :
           (call[c].pc = "raised" /\ call[d].pc = "raised"
                /\ FailureClass(c) # FailureClass(d))
               => call[c].raised.cls # call[d].raised.cls
    /\ \A c \in Calls :
           /\ call[c].pc = "raised" => call[c].result # SUCCESS
           /\ IsPrefix(Effects(c), <<"POST", "GET", "OPEN", "WRITE">>)

\* C4: a POST that fails at the transport layer or answers a 4xx/5xx status
\* makes the call raise StatusCodeError; no GET is issued and every file is
\* as it was before the call.
C4_PostFailure ==
    \A c \in Calls :
        PostFailed(c)
            => /\ ~Did(c, "GET") /\ ~Did(c, "OPEN") /\ ~Did(c, "WRITE")
               /\ files = files0
               /\ call[c].pc # "returned"
               /\ call[c].pc = "raised" => call[c].raised.cls = "StatusCodeError"

C4_Witness ==
    \E c \in Calls :
        /\ call[c].pc = "raised" /\ call[c].post.status = 404
        /\ call[c].raised.cls = "StatusCodeError"
        /\ files0[call[c].output_image_path].exists

\* C5: a successful POST whose candidate string (the body without its first 4
\* and last 1 characters) is empty or does not start with https:// makes the
\* call raise ImageGenerationError "No Image URL found."; no GET is issued,
\* nothing is printed and no file is written.
C5_NoUrl ==
    \A c \in Calls :
        ( /\ PostSucceeded(c) /\ BodyDecodes(c)
          /\ call[c].pc \notin {"raise_for_status", "slice"}
          /\ (Candidate(c) = <<>> \/ ~StartsWith(Candidate(c), HTTPS_PREFIX)) )
            => /\ call[c].log = <<"POST">>
               /\ stdout = <<>>
               /\ files = files0
               /\ call[c].pc \in {"generate_except", "raised"}
               /\ call[c].pc = "raised"
                      => call[c].raised = Exc("ImageGenerationError", <<MSG_NO_URL>>)

C5_Witness ==
    \E c \in Calls :
        /\ call[c].pc = "raised" /\ call[c].prints
        /\ call[c].post.status = 200
        /\ call[c].post.content = BACKTICKS \o HTTPS_PREFIX \o <<97>> \o BACKTICKS
        /\ call[c].raised.msg = <<MSG_NO_URL>>

\* C6: the GET having answered 200 with bytes B, once the download step has
\* completed the output file holds exactly B, whatever it held before.
C6_FileHoldsBody ==
    \A c \in Calls :
        (call[c].get.status = 200 /\ call[c].pc \in {"return", "returned"})
            => files[call[c].output_image_path] = File(call[c].get.content)

C6_Witness ==
    \E c \in Calls :
        /\ call[c].pc = "returned"
        /\ files0[call[c].output_image_path].exists
        /\ Len(files0[call[c].output_image_path].data) > Len(call[c].get.content)
        /\ call[c].get.content # <<>>
        /\ files[call[c].output_image_path].data = call[c].get.content

\* C7: for a decoded POST body of L >= 5 characters, the candidate URL is the
\* characters from index 4 up to the last one excluded: L-5 characters, each
\* the character of the body 4 places further.
C7_FramingRemoval ==
    \A c \in Calls :
        ( /\ PostSucceeded(c)
          /\ call[c].pc \notin {"raise_for_status", "slice"} )
            => LET body == Decode(call[c].post.content)
                   L == Len(body.text)
               IN  (body.ok /\ L >= 5)
                       => /\ Len(call[c].image_url) = L - 5
                          /\ \A i \in 1..(L - 5) :
                                 call[c].image_url[i] = body.text[i + 4]

C7_Witness ==
    \E c \in Calls :
        /\ call[c].pc = "get"
        /\ Len(BodyText(c)) > 5
        /\ Len(call[c].post.content) > Len(BodyText(c))
        /\ Len(call[c].image_url) = Len(BodyText(c)) - 5

\* C8: the side effects of a call occur at most once each and in the order
\* POST, GET, file open and write; a GET only after a successful POST that
\* gave an https:// URL, the file opened only after a GET that answered 200;
\* a call that ended in failure has repeated nothing.
C8_EffectOrder ==
    \A c \in Calls :
        /\ IsPrefix(Effects(c), <<"POST", "GET", "OPEN", "WRITE">>)
        /\ Did(c, "GET") => /\ PostSucceeded(c)
                            /\ StartsWith(call[c].image_url, HTTPS_PREFIX)
                            /\ call[c].get_url = call[c].image_url
        /\ Did(c, "OPEN") => call[c].get.status = 200
        /\ Did(c, "PRINT") => call[c].prints /\ ~PostFailed(c)

C8_Witness ==
    \E c \in Calls :
        /\ call[c].pc = "raised"
        /\ call[c].log = <<"POST", "PRINT", "GET", "OPEN", "WRITE">>

\* what a call alone makes of the answers it was given: the error it raises
\* (or none) and the value it returns (or none)
AloneOutcome(l) ==
    LET d == Decode(l.post.content)
        failed(cls, msg) == [raised |-> Exc(cls, msg), result |-> ""]
    IN  IF l.post.exc # "None"
        THEN failed("StatusCodeError", <<MSG_REQUEST_FAILED, l.post.exc>>)
        ELSE IF l.post.status \in 400..599
        THEN failed("StatusCodeError", <<MSG_REQUEST_FAILED, "HTTPError">>)
        ELSE IF ~d.ok
        THEN failed("ImageGenerationError", <<MSG_UNEXPECTED, "UnicodeDecodeError">>)
        ELSE IF ~StartsWith(SubSeq(d.text, 5, Len(d.text) - 1), HTTPS_PREFIX)
        THEN failed("ImageGenerationError", <<MSG_NO_URL>>)
        ELSE IF l.get.exc # "None"
        THEN failed("ImageGenerationError", <<MSG_UNEXPECTED, MSG_DOWNLOAD_ERROR, l.get.exc>>)
        ELSE IF l.get.status # 200
        THEN failed("ImageGenerationError", <<MSG_UNEXPECTED, MSG_DOWNLOAD_FAILED>>)
        ELSE IF l.io.open = "error"
        THEN failed("ImageGenerationError", <<MSG_UNEXPECTED, "PermissionError">>)
        ELSE IF l.io.write = "error"
        THEN failed("ImageGenerationError", <<MSG_UNEXPECTED, "OSError">>)
        ELSE [raised |-> NoExc, result |-> SUCCESS]

\* what a call alone leaves at its output path, which held old before
AloneFile(l, old) ==
    IF l.io.open # "ok" THEN old
    ELSE IF l.io.write = "ok" THEN File(l.get.content)
    ELSE File(SubSeq(l.get.content, 1, l.io.written))

\* a call running alone ends as AloneOutcome and AloneFile say
AloneIsSequential ==
    \A c \in Calls :
        Ended(c) =>
            /\ [raised |-> call[c].raised, result |-> call[c].result] = AloneOutcome(call[c])
            /\ files[call[c].output_image_path]
                   = AloneFile(call[c], files0[call[c].output_image_path])

\* C9: two calls running concurrently on one client with different output
\* paths end, under every interleaving, each with the outcome and the file
\* content it would have had alone; api_url and headers are unchanged.
C9_ConcurrentAsAlone ==
    /\ self = DefaultClient
    /\ \A c, d \in Calls :
           ( /\ c # d /\ Ended(c) /\ Ended(d)
             /\ call[c].output_image_path # call[d].output_image_path )
               => /\ [raised |-> call[c].raised, result |-> call[c].result]
                      = AloneOutcome(call[c])
                  /\ files[call[c].output_image_path]
                         = AloneFile(call[c], files0[call[c].output_image_path])

C9_Witness ==
    /\ call[1].pc = "returned" /\ call[2].pc = "returned"
    /\ call[1].output_image_path # call[2].output_image_path
    /\ call[1].get.content # call[2].get.content
    /\ files0[call[1].output_image_path].exists
    /\ \A c \in Calls : files[call[c].output_image_path] = File(call[c].get.content)

\* C10: a call ends by returning the success value or by raising an error of
\* the umbrella kind BlackboxAPIError; no failure inside it (transport,
\* decoding, download, file open or write) leaves it as another exception.
C10_UmbrellaError ==
    \A c \in Calls :
        Ended(c) =>
            \/ /\ call[c].pc = "returned"
               /\ call[c].result = SUCCESS
               /\ call[c].raised = NoExc
            \/ /\ call[c].pc = "raised"
               /\ call[c].result = ""
               /\ IsInstance(call[c].raised.cls, "BlackboxAPIError")

C10_Witness ==
    \E c \in Calls :
        /\ call[c].pc = "raised"
        /\ call[c].io.open = "error"
        /\ call[c].raised.cls = "ImageGenerationError"
        /\ call[c].raised.msg = <<MSG_UNEXPECTED, "PermissionError">>

====
